---- MODULE Spec2Model ----
(***************************************************************************)
(* Delivery pipeline of @sourceregistry/node-logger.                       *)
(*                                                                         *)
(* Four sinks are modelled, each as a state machine of its own:            *)
(*   - HTTPTransport (the fetch based remote batch sender), specification  *)
(*     SpecHTTP;                                                           *)
(*   - WorkerTransport (the out-of-process channel with the circuit        *)
(*     breaker), specifications SpecWorker (few workers, every mailbox     *)
(*     observed), SpecBreaker (enough workers for the breaker to trip) and *)
(*     SpecClose (two close() calls);                                      *)
(*   - SmartFileTransport (the local sink with the trigger engine),        *)
(*     specification SpecSmart;                                            *)
(*   - BufferedFileTransport (the local sink with size and interval        *)
(*     flush), specification SpecBuffered.                                 *)
(* SpecSinks constructs any one of the four.  SpecFaults is the two local  *)
(* sinks on a stream whose writes complete, some with an error, and        *)
(* SpecHTTPFair the HTTPTransport with a timer that keeps firing and       *)
(* requests that settle.  Two more objects have a state machine:           *)
(*   - Logger over a list of transports that may fail, SpecLogger;         *)
(*   - FileTransport (every write chained onto a promise), SpecFile.       *)
(* Node's event loop is single threaded: every action below is one         *)
(* synchronous section of the code, from the event that starts it to the   *)
(* next suspension point (an await on the network, a timer, a worker       *)
(* event).                                                                 *)
(***************************************************************************)
EXTENDS Integers, Sequences, FiniteSets, TLC

VARIABLES
    \* ---- HTTPTransport ----
    queue,              \* this.queue: LogEntry[]
    isFlushInProgress,  \* this.isFlushInProgress
    timer,              \* TRUE while the setInterval timer is armed
    sends,              \* one record per flush() that took a batch, in creation order
    closesResolved,     \* number of close() calls that have resolved
    httpAccepted,       \* number of entries write() has pushed so far
    closeCalls,         \* number of close() calls so far
    maxRetries,         \* this.config.maxRetries, fixed at construction
    \* ---- WorkerTransport ----
    worker,             \* this.worker: 0 is undefined, else the index into workers
    workers,            \* every Worker constructed so far, in spawn order
    messageQueue,       \* this.messageQueue
    restartCount,       \* this.restartCount
    circuitBroken,      \* this.circuitBroken
    restartTimers,      \* number of pending setTimeout(startWorker, restartDelay)
    circuitReports,     \* console.error('... circuit breaker opened ...') calls
    circuitWarns,       \* console.warn('... not restarting worker') calls
    wAccepted,          \* number of messages write() has formatted so far
    wCloseCalls,        \* number of close() calls so far
    wScope,             \* what the specification explores and observes
    \* ---- SmartFileTransport ----
    buffer,             \* this.buffer: string[]
    flushTimer,         \* this.flushTimer: ticks until the interval fires, Unarmed if none
    idleTimer,          \* this.idleTimer: ticks until the timeout fires, Unarmed if none
    isClosing,          \* this.isClosing
    autoFlush,          \* this.autoFlush, fixed at construction
    writeStream,        \* this.writeStream: the write() and end() calls it has received
    sinceWrite,         \* ticks since the last accepted write (since construction before it)
    sAccepted,          \* number of entries write() has pushed so far
    sCloseCalls,        \* number of close() calls so far
    \* ---- BufferedFileTransport ----
    bfBuffer,           \* this.buffer: string[]
    bfFlushTimer,       \* this.flushTimer: ticks until the interval fires, Unarmed if none
    bfIsClosing,        \* this.isClosing
    bfWriteStream,      \* this.writeStream: the write() and end() calls it has received
    bfAccepted,         \* number of entries write() has pushed so far
    bfCloseCalls,       \* number of close() calls so far
    \* ---- the program ----
    program,            \* the sink the program has constructed, and how many accepted
                        \* and dropped write() calls the specification follows
    dropped,            \* the write() calls that returned at the door, in call order
    \* ---- Logger ----
    transports,         \* this.transports: the transports and what each has received
    logCalls,           \* number of log calls that passed minLevel so far
    logThrew,           \* number of log calls that threw into the producer
    consoleErrors,      \* the console.error calls of the Logger, in call order
    catchPending,       \* rejected write() promises whose catch handler has not run
    closeResult,        \* the promise of Logger.close(): "none" before the call
    \* ---- FileTransport ----
    writeQueue,         \* this.writeQueue: the lines of the chained writes not yet issued
    ftWriteStream,      \* this.writeStream: the write() and end() calls it has received
    ftFlushTimer,       \* TRUE while the setInterval timer is armed
    ftAccepted,         \* number of entries write() has chained so far
    ftQueueErrors,      \* console.error('FileTransport queue error:') calls
    ftCloseAwaits       \* per close() not yet past `await this.writeQueue`: the number of
                        \* stream writes that have to complete first

httpVars == <<queue, isFlushInProgress, timer, sends, closesResolved,
              httpAccepted, closeCalls, maxRetries>>

workerVars == <<worker, workers, messageQueue, restartCount, circuitBroken,
                restartTimers, circuitReports, circuitWarns, wAccepted, wCloseCalls,
                wScope>>

smartVars == <<buffer, flushTimer, idleTimer, isClosing, autoFlush, writeStream,
               sinceWrite, sAccepted, sCloseCalls>>

bufferedVars == <<bfBuffer, bfFlushTimer, bfIsClosing, bfWriteStream, bfAccepted,
                  bfCloseCalls>>

loggerVars == <<transports, logCalls, logThrew, consoleErrors, catchPending, closeResult>>

fileVars == <<writeQueue, ftWriteStream, ftFlushTimer, ftAccepted, ftQueueErrors,
              ftCloseAwaits>>

vars == <<httpVars, workerVars, smartVars, bufferedVars, program, dropped, loggerVars, fileVars>>

(***************************************************************************)
(* Bounds of the model.                                                    *)
(***************************************************************************)
MaxWrites == 3      \* accepted write() calls on the HTTP sink
MaxCloses == 1      \* close() calls on the HTTP sink
MaxRetriesCfg == 2  \* config.maxRetries ranges over 0..MaxRetriesCfg
BatchSize == 2      \* config.batchSize of the modelled sink
ReplayWorkers == 3  \* Worker objects constructed under SpecWorker
WMaxWrites == 2     \* accepted write() calls under SpecWorker
WMaxCloses == 1     \* close() calls under SpecWorker
MaxWorkers == 6     \* Worker objects constructed under SpecBreaker
BreakerWrites == 1  \* accepted write() calls under SpecBreaker
CloseWorkers == 2   \* Worker objects constructed under SpecClose
CloseWrites == 1    \* accepted write() calls under SpecClose
CloseCalls == 2     \* close() calls under SpecClose
SMaxWrites == 3     \* accepted write() calls on a local sink
SMaxCloses == 2     \* close() calls on a local sink
SizeN == 2          \* autoFlush.onSize / bufferSize, when configured
IdleTicks == 3      \* autoFlush.onIdle in ticks, when configured
IntervalTicks == 2  \* autoFlush.interval / flushInterval in ticks, when configured
MaxDropped == 1     \* dropped write() calls followed where the door is observed
SinkWrites == 2     \* accepted write() calls under SpecSinks
SinkWorkers == 2    \* Worker objects constructed under SpecSinks
MaxTransports == 3  \* transports handed to the Logger constructor
LoggerCalls == 2    \* log calls of the producer that pass minLevel
FileWrites == 3     \* accepted write() calls to the FileTransport
FileCloses == 1     \* close() calls on the FileTransport
FairWrites == 2     \* accepted write() calls where the hand-off is followed to its end
VariantWrites == 2  \* accepted write() calls to either variant of the HTTPTransport
CapWrites == 4      \* accepted write() calls where the queue may outgrow batchSize
FaultWrites == 2    \* accepted write() calls to a local sink whose stream may fail
MaxStreamErrors == 1 \* stream writes the stream reports an error for

(***************************************************************************)
(* Types and configuration.                                                *)
(***************************************************************************)
LogLevel == [TRACE |-> 0, DEBUG |-> 1, INFO |-> 2, WARN |-> 3, ERROR |-> 4, FATAL |-> 5]

LevelName == [l \in 0..5 |->
    CASE l = 0 -> "TRACE" [] l = 1 -> "DEBUG" [] l = 2 -> "INFO"
      [] l = 3 -> "WARN"  [] l = 4 -> "ERROR" [] OTHER -> "FATAL"]

\* Levels the producers of the model log at: one below the sinks' minLevel
\* (dropped at the door) and one at it (accepted).
WriteLevels == {LogLevel.DEBUG, LogLevel.INFO}

\* JSONFormatter.format: the entry rendered as a JSON object string; the
\* message text is the entry's identity.
format(entry) == [level |-> LevelName[entry.level], message |-> entry.message]

\* A field that holds no value: a timer handle that is not set, an option
\* the configuration leaves out.
Undefined == -1

\* JavaScript's truthiness of an optional number: undefined and 0 are falsy.
Truthy(x) == x # Undefined /\ x # 0

\* createWriteStream(filePath, {flags: 'a'}): the data of every write() call
\* the stream has received (each the sequence of its lines), the number of
\* end() calls, and the number of write() calls that came after an end();
\* the number of write() calls whose callback has run, the write() calls the
\* stream reported an error for, the console.error calls of the callbacks,
\* and whether the stream is destroyed.
newStream ==
    [writes |-> <<>>, ends |-> 0, writesAfterEnd |-> 0,
     completed |-> 0, failed |-> {}, errorsLogged |-> 0, destroyed |-> FALSE]

\* A stream that createWriteStream returns already destroyed.
destroyedStream == [newStream EXCEPT !.destroyed = TRUE]

\* The program has constructed `sink`; `writes` accepted and `drops` dropped
\* write() calls are followed.
constructs(sink, writes, drops) ==
    /\ program = [sink |-> sink, writes |-> writes, drops |-> drops]
    /\ dropped = <<>>

\* write() returns at the door (the entry is below minLevel, or the sink is
\* closing): nothing of the sink changes.
drop(entry, closing) ==
    /\ Len(dropped) < program.drops
    /\ dropped' = Append(dropped, [level |-> entry.level, closing |-> closing])
    /\ UNCHANGED <<httpVars, workerVars, smartVars, bufferedVars, program,
                   loggerVars, fileVars>>

\* No SmartFileTransport has been constructed.
SmartIdle ==
    /\ buffer = <<>> /\ flushTimer = Undefined /\ idleTimer = Undefined
    /\ isClosing = FALSE
    /\ autoFlush = [enabled |-> FALSE, interval |-> 0, onSize |-> 0,
                    onLevel |-> Undefined, onIdle |-> 0]
    /\ writeStream = newStream /\ sinceWrite = 0 /\ sAccepted = 0 /\ sCloseCalls = 0

\* No BufferedFileTransport has been constructed.
BufferedIdle ==
    /\ bfBuffer = <<>> /\ bfFlushTimer = Undefined /\ bfIsClosing = FALSE
    /\ bfWriteStream = newStream /\ bfAccepted = 0 /\ bfCloseCalls = 0

\* No Logger has been constructed.
LoggerIdle ==
    /\ transports = <<>> /\ logCalls = 0 /\ logThrew = 0 /\ consoleErrors = <<>>
    /\ catchPending = 0 /\ closeResult = "none"

\* No FileTransport has been constructed.
FileIdle ==
    /\ writeQueue = <<>> /\ ftWriteStream = newStream /\ ftFlushTimer = FALSE
    /\ ftAccepted = 0 /\ ftQueueErrors = 0 /\ ftCloseAwaits = <<>>

(***************************************************************************)
(* HTTPTransport (fetch variant).                                          *)
(***************************************************************************)
minLevel == LogLevel.INFO
retryDelay == 1000

\* A send is outstanding from its first fetch() until sendBatch settles:
\* a request in the air, or a backoff wait between two requests.
InFlight(s) == s.phase \in {"request", "backoff"}

Outstanding == {b \in 1..Len(sends) : InFlight(sends[b])}

Settled == {b \in 1..Len(sends) : ~InFlight(sends[b])}

Messages(batch) == {batch[i].message : i \in 1..Len(batch)}

\* A door that lets every level in.
Rejected_AsNever(entry) == FALSE

\* entry.level < minLevel: the entry is dropped at the door.
Rejected(entry) == entry.level < minLevel

\* A copy instead of a cut: what this.queue.slice(0) would do.
splice0_AsSlice(q) == [removed |-> q, rest |-> q]

\* A cut of at most batchSize entries from the head of the queue.
splice0_Capped(q) ==
    IF Len(q) <= BatchSize THEN [removed |-> q, rest |-> <<>>]
    ELSE [removed |-> SubSeq(q, 1, BatchSize), rest |-> SubSeq(q, BatchSize + 1, Len(q))]

\* this.queue.splice(0): the removed elements and what stays in the queue.
splice0(q) == [removed |-> q, rest |-> <<>>]

\* An unshift instead of a push.
push_AsUnshift(q, entry) == <<entry>> \o q

\* this.queue.push(entry)
push(q, entry) == Append(q, entry)

\* sendBatch's request body: JSON.stringify of the formatted batch.
requestBody(batch) == [i \in 1..Len(batch) |-> format(batch[i])]

\* The record of a flush that has just taken `batch` and issued its first
\* request; `closeAt` is the number of accepted entries when the close()
\* awaiting this flush was called, -1 when no close() awaits it.
newSend(batch, closeAt) ==
    [batch |-> batch, body |-> requestBody(batch), retryCount |-> 0,
     phase |-> "request", requests |-> 1, reported |-> 0, waits |-> <<>>,
     closeAt |-> closeAt]

\* flush(): returns at once on an empty queue or when a flush is in progress.
flushIsNoop(q, inProgress) == Len(q) = 0 \/ inProgress

\* flush() called with the queue `q` and the flag `inProgress` as they are
\* at the call; runs up to the await of fetch().
flush(q, inProgress, closeAt) ==
    IF flushIsNoop(q, inProgress)
    THEN /\ queue' = q
         /\ isFlushInProgress' = inProgress
         /\ UNCHANGED sends
    ELSE LET sp == splice0(q)
         IN  /\ isFlushInProgress' = TRUE
             /\ queue' = sp.rest
             /\ sends' = Append(sends, newSend(sp.removed, closeAt))

\* write(entry)
HTTPWrite(level) ==
    LET entry == [level |-> level, message |-> httpAccepted + 1]
    IN  IF Rejected(entry)
        THEN drop(entry, FALSE)
        ELSE /\ httpAccepted < program.writes
             /\ httpAccepted' = httpAccepted + 1
             /\ LET pushed == push(queue, entry)
                IN  IF Len(pushed) >= BatchSize /\ ~isFlushInProgress
                    THEN flush(pushed, isFlushInProgress, -1)
                    ELSE /\ queue' = pushed
                         /\ UNCHANGED <<isFlushInProgress, sends>>
             /\ UNCHANGED <<timer, closesResolved, closeCalls, maxRetries>>
             /\ UNCHANGED <<workerVars, smartVars, bufferedVars, program, dropped, loggerVars, fileVars>>

\* The setInterval callback: if (!this.isFlushInProgress) this.flush()
HTTPTick ==
    /\ timer
    /\ IF ~isFlushInProgress
       THEN flush(queue, isFlushInProgress, -1)
       ELSE UNCHANGED <<queue, isFlushInProgress, sends>>
    /\ UNCHANGED <<timer, closesResolved, httpAccepted, closeCalls, maxRetries>>
    /\ UNCHANGED <<workerVars, smartVars, bufferedVars, program, dropped, loggerVars, fileVars>>

\* An explicit flush() by the owner of the sink.
HTTPFlush ==
    /\ flush(queue, isFlushInProgress, -1)
    /\ UNCHANGED <<timer, closesResolved, httpAccepted, closeCalls, maxRetries>>
    /\ UNCHANGED <<workerVars, smartVars, bufferedVars, program, dropped, loggerVars, fileVars>>

\* close(): clearInterval, isFlushInProgress = false, await this.flush().
\* When flush() returns at once, close() resolves in the same turn.
HTTPClose ==
    /\ closeCalls < MaxCloses
    /\ closeCalls' = closeCalls + 1
    /\ timer' = FALSE
    /\ flush(queue, FALSE, httpAccepted)
    /\ closesResolved' = IF flushIsNoop(queue, FALSE)
                         THEN closesResolved + 1
                         ELSE closesResolved
    /\ UNCHANGED <<httpAccepted, maxRetries>>
    /\ UNCHANGED <<workerVars, smartVars, bufferedVars, program, dropped, loggerVars, fileVars>>

\* An off-by-one retry test.
shouldRetry_OffByOne(retryCount) == retryCount <= maxRetries

\* The default of config.maxRetries.
defaultMaxRetries == 3

\* The retry budget sendBatch's catch reads: (this.config.maxRetries ?? 3)
\* in the fetch variant, (this.config.maxRetries || 3) in the variant on
\* the http module, where a configured 0 is falsy and gives the default.
retryBudget ==
    IF program.sink = "httpNode"
    THEN IF Truthy(maxRetries) THEN maxRetries ELSE defaultMaxRetries
    ELSE IF maxRetries # Undefined THEN maxRetries ELSE defaultMaxRetries

\* sendBatch's catch: retryCount < the retry budget decides between a retry
\* and rethrowing to flush().
shouldRetry(retryCount) == retryCount < retryBudget

\* A backoff whose attempt counter starts at 1.
backoffDelay_FromOne(retryCount) == retryDelay * (2 ^ (retryCount + 1))

\* this.config.retryDelay * Math.pow(2, retryCount)
backoffDelay(retryCount) == retryDelay * (2 ^ retryCount)

\* flush()'s catch: console.error('HTTPTransport flush failed:', err); the
\* batch is a local of flush() and goes out of scope with it.
finalFailure(s) ==
    [s EXCEPT !.phase = "failed", !.reported = @ + 1]

\* A dead letter path that puts the failed batch back.
queueAfterFailure_Requeue(q, batch) == batch \o q

\* The queue after a flush whose send failed for good: flush() does not
\* touch this.queue in its catch block.
queueAfterFailure(q, batch) == q

\* A flush() whose finally block leaves the flag set.
flushSettles_KeepsFlag(b, s) ==
    /\ sends' = [sends EXCEPT ![b] = s]
    /\ isFlushInProgress' = isFlushInProgress
    /\ closesResolved' = IF s.closeAt >= 0 THEN closesResolved + 1 ELSE closesResolved

\* flush() has settled for send b (its new record is `s`): the finally
\* block clears the flag, and a close() awaiting this flush resolves.
flushSettles(b, s) ==
    /\ sends' = [sends EXCEPT ![b] = s]
    /\ isFlushInProgress' = FALSE
    /\ closesResolved' = IF s.closeAt >= 0 THEN closesResolved + 1 ELSE closesResolved

\* fetch() resolved with a 2xx response.
HTTPRequestOk(b) ==
    /\ sends[b].phase = "request"
    /\ flushSettles(b, [sends[b] EXCEPT !.phase = "delivered"])
    /\ UNCHANGED <<queue, timer, httpAccepted, closeCalls, maxRetries>>
    /\ UNCHANGED <<workerVars, smartVars, bufferedVars, program, dropped, loggerVars, fileVars>>

\* fetch() rejected ("reject"), or resolved with a non-2xx response
\* ("status") which sendBatch turns into a thrown Error: one catch block.
HTTPRequestFail(b, kind) ==
    /\ sends[b].phase = "request"
    /\ kind \in {"reject", "status"}
    /\ IF shouldRetry(sends[b].retryCount)
       THEN /\ sends' = [sends EXCEPT ![b] =
                            [@ EXCEPT !.phase = "backoff",
                                      !.waits = Append(@, backoffDelay(sends[b].retryCount))]]
            /\ UNCHANGED <<queue, isFlushInProgress, closesResolved>>
       ELSE /\ flushSettles(b, finalFailure(sends[b]))
            /\ queue' = queueAfterFailure(queue, sends[b].batch)
    /\ UNCHANGED <<timer, httpAccepted, closeCalls, maxRetries>>
    /\ UNCHANGED <<workerVars, smartVars, bufferedVars, program, dropped, loggerVars, fileVars>>

\* The backoff setTimeout fired: sendBatch(batch, retryCount + 1).
HTTPBackoffExpire(b) ==
    /\ sends[b].phase = "backoff"
    /\ sends' = [sends EXCEPT ![b] =
                    [@ EXCEPT !.phase = "request", !.retryCount = @ + 1,
                              !.requests = @ + 1]]
    /\ UNCHANGED <<queue, isFlushInProgress, timer, closesResolved, httpAccepted,
                   closeCalls, maxRetries>>
    /\ UNCHANGED <<workerVars, smartVars, bufferedVars, program, dropped, loggerVars, fileVars>>

WorkerIdle ==
    /\ worker = 0 /\ workers = <<>> /\ messageQueue = <<>> /\ restartCount = 0
    /\ circuitBroken = FALSE /\ restartTimers = 0 /\ circuitReports = 0
    /\ circuitWarns = 0
    /\ wAccepted = 0 /\ wCloseCalls = 0 /\ wScope = [workers |-> 0, closes |-> 0, posts |-> FALSE]

\* new HTTPTransport(config, fetch): empty queue, timer armed.
NewHTTP ==
    /\ queue = <<>>
    /\ isFlushInProgress = FALSE
    /\ timer = TRUE
    /\ sends = <<>>
    /\ closesResolved = 0
    /\ httpAccepted = 0
    /\ closeCalls = 0
    /\ maxRetries \in 0..MaxRetriesCfg
    /\ WorkerIdle
    /\ SmartIdle
    /\ BufferedIdle
    /\ LoggerIdle
    /\ FileIdle

InitHTTP == NewHTTP /\ constructs("http", MaxWrites, 0)

NextHTTP ==
    \/ \E level \in WriteLevels : HTTPWrite(level)
    \/ HTTPTick
    \/ HTTPFlush
    \/ HTTPClose
    \/ \E b \in 1..Len(sends) : HTTPRequestOk(b)
    \/ \E b \in 1..Len(sends) : \E kind \in {"reject", "status"} : HTTPRequestFail(b, kind)
    \/ \E b \in 1..Len(sends) : HTTPBackoffExpire(b)

SpecHTTP == InitHTTP /\ [][NextHTTP]_vars

\* Either variant of the HTTPTransport: the one on fetch or the one on the
\* http module.
InitHTTPVariants ==
    /\ NewHTTP
    /\ \/ constructs("http", VariantWrites, 0)
       \/ constructs("httpNode", VariantWrites, 0)

SpecHTTPVariants == InitHTTPVariants /\ [][NextHTTP]_vars

\* A sink that retries once, with enough writes for the queue to outgrow
\* batchSize while a flush is in flight.
InitHTTPCap ==
    /\ NewHTTP
    /\ maxRetries = 1
    /\ constructs("http", CapWrites, 0)

SpecHTTPCap == InitHTTPCap /\ [][NextHTTP]_vars

\* The sink in an environment that keeps going: the interval timer fires
\* again and again while it is armed, every request gets its response or
\* its failure, and every backoff wait expires.
InitHTTPFair == NewHTTP /\ constructs("http", FairWrites, 0)

\* The request of send b gets its response or its failure.
HTTPSettles(b) ==
    /\ b \in 1..Len(sends)
    /\ \/ HTTPRequestOk(b)
       \/ \E kind \in {"reject", "status"} : HTTPRequestFail(b, kind)

\* The backoff wait of send b expires.
HTTPWaitEnds(b) == b \in 1..Len(sends) /\ HTTPBackoffExpire(b)

SpecHTTPFair ==
    /\ InitHTTPFair
    /\ [][NextHTTP]_vars
    /\ WF_vars(HTTPTick)
    /\ \A b \in 1..FairWrites : WF_vars(HTTPSettles(b)) /\ WF_vars(HTTPWaitEnds(b))

(***************************************************************************)
(* Claims about HTTPTransport.                                             *)
(***************************************************************************)
BodyMessages(b) == {sends[b].body[i].message : i \in 1..Len(sends[b].body)}

Failed == {b \in 1..Len(sends) : sends[b].phase = "failed"}

\* C1: at most one send (a request or a backoff wait between requests) is
\* outstanding for the sink in every reachable state.
C1_SingleFlight == Cardinality(Outstanding) <= 1

\* The entries that are in a settled (delivered or finally failed) batch.
SettledMessages == UNION {Messages(sends[b].batch) : b \in Settled}

\* The number of entries accepted before the close() that resolves in this
\* step was called: held by the send it awaited, or, when its flush()
\* returned at once, the number accepted so far.
ResolvingCloseCalledAt ==
    IF closeCalls' > closeCalls
    THEN httpAccepted
    ELSE LET b == CHOOSE b \in 1..Len(sends) :
                     InFlight(sends[b]) /\ ~InFlight(sends'[b])
         IN  sends[b].closeAt

\* C2: in the step in which a close() resolves, no send is left outstanding
\* and every entry accepted before that close() was called is in a settled
\* batch.
C2_CloseWaitsForEveryBatch ==
    [][closesResolved' > closesResolved =>
          /\ Outstanding' = {}
          /\ (1..ResolvingCloseCalledAt) \subseteq SettledMessages']_vars

\* C3: a batch never gets more than maxRetries + 1 requests; a batch that
\* failed for good got exactly maxRetries + 1 requests and was reported
\* exactly once; no other batch is reported.
C3_RetryBound ==
    \A b \in 1..Len(sends) :
        /\ sends[b].requests <= maxRetries + 1
        /\ sends[b].reported <= 1
        /\ sends[b].phase = "failed" =>
              sends[b].requests = maxRetries + 1 /\ sends[b].reported = 1
        /\ sends[b].phase # "failed" => sends[b].reported = 0

C3_Witness ==
    \E b \in 1..Len(sends) :
        /\ sends[b].phase = "failed"
        /\ maxRetries = 2
        /\ sends[b].requests = 3

\* C4: the entries of a batch that failed for good are not in the queue and
\* not in the body of any other batch's requests, and the failed batch
\* itself issues no further request.
C4_FailedBatchDropped ==
    /\ [](\A b \in Failed :
            /\ BodyMessages(b) \cap Messages(queue) = {}
            /\ \A c \in 1..Len(sends) : c # b => BodyMessages(b) \cap BodyMessages(c) = {})
    /\ [][\A b \in Failed : b \in 1..Len(sends') /\ sends'[b] = sends[b]]_vars

C4_Witness ==
    /\ closeCalls = 0
    /\ \E b \in Failed : \E c \in 1..Len(sends) : c > b /\ sends[c].requests >= 1

\* The entries of a sequence of entries, as the sequence of their messages.
Ids(entries) == [i \in 1..Len(entries) |-> entries[i].message]

\* C5: the request bodies, taken batch by batch in the order the batches
\* were first sent, list the accepted entries in write order: an entry
\* written earlier is never sent in a later position than one written later,
\* and whatever is still queued was written after everything sent.  A new
\* batch is the whole queue as it was when flush() took it (with the entry
\* of the write() that called flush()), in queue order.
C5_WriteOrderKept ==
    /\ [](/\ \A b \in 1..Len(sends) : \A c \in b..Len(sends) :
                \A i \in 1..Len(sends[b].body) : \A j \in 1..Len(sends[c].body) :
                   (b < c \/ i < j) => sends[b].body[i].message < sends[c].body[j].message
          /\ \A i \in 1..Len(queue) : \A j \in 1..Len(queue) :
                i < j => queue[i].message < queue[j].message
          /\ \A b \in 1..Len(sends) :
                \A m \in BodyMessages(b) : \A n \in Messages(queue) : m < n)
    /\ [][Len(sends') > Len(sends) =>
            /\ Len(sends') = Len(sends) + 1
            /\ Ids(sends'[Len(sends')].body) =
                  IF httpAccepted' > httpAccepted
                  THEN Append(Ids(queue), httpAccepted')
                  ELSE Ids(queue)
            /\ queue' = <<>>]_vars

C5_Witness ==
    /\ Len(sends) >= 2
    /\ Len(sends[1].body) >= 2
    /\ Cardinality(Outstanding) >= 2
    /\ closeCalls >= 1

\* Number of places an accepted entry is held in: the queue and the batches.
Occurrences(m) ==
    Cardinality({i \in 1..Len(queue) : queue[i].message = m})
    + Cardinality({p \in UNION {{<<b, i>> : i \in 1..Len(sends[b].batch)} :
                                    b \in 1..Len(sends)} :
                      sends[p[1]].batch[p[2]].message = m})

\* C6: every accepted entry is in exactly one place, the queue or one batch,
\* and a batch never changes after flush() took it: an entry written while
\* the send is outstanding is not added to it.
C6_SnapshotAtomicity ==
    /\ [](\A m \in 1..httpAccepted : Occurrences(m) = 1)
    /\ [][\A b \in 1..Len(sends) :
             b \in 1..Len(sends') /\ sends'[b].batch = sends[b].batch]_vars

C6_Witness ==
    \E b \in Outstanding :
        /\ sends[b].phase = "backoff"
        /\ queue # <<>>
        /\ \A i \in 1..Len(queue) : \A m \in Messages(sends[b].batch) : queue[i].message > m

(***************************************************************************)
(* WorkerTransport (the variant with replay queue and circuit breaker).    *)
(*                                                                         *)
(* A Worker of worker_threads emits 'error' at most once (an uncaught      *)
(* exception, after which the thread is terminated) and 'exit' exactly     *)
(* once; the exit code after an 'error' or a terminate() is 1.  The        *)
(* handlers startWorker registers stay registered on a worker that is no   *)
(* longer this.worker.                                                     *)
(***************************************************************************)
maxRestarts == 5
workerMinLevel == LogLevel.INFO

HttpIdle ==
    /\ queue = <<>> /\ isFlushInProgress = FALSE /\ timer = FALSE /\ sends = <<>>
    /\ closesResolved = 0 /\ httpAccepted = 0 /\ closeCalls = 0
    /\ maxRetries = 0

logEnvelope(formatted) == [type |-> "log", data |-> formatted]

closeEnvelope == [type |-> "close", data |-> "none"]

\* The mailbox `log` of a worker after postMessage(envelope).  The
\* mailboxes are observations of the model, kept where wScope.posts says so.
postMessage(log, envelope) == IF wScope.posts THEN Append(log, envelope) ELSE log

RECURSIVE postAll(_, _)
postAll(log, envelopes) ==
    IF envelopes = <<>> THEN log
    ELSE postAll(postMessage(log, Head(envelopes)), Tail(envelopes))

\* A replay from the tail of the queue: pop() instead of shift().
replay_AsPop(q) ==
    [posted |-> [i \in 1..Len(q) |-> logEnvelope(q[Len(q) + 1 - i])], rest |-> <<>>]

\* while (queue.length > 0) postMessage({type:'log', data: queue.shift()}):
\* the envelopes posted, in posting order, and what stays queued.
replay(q) == [posted |-> [i \in 1..Len(q) |-> logEnvelope(q[i])], rest |-> <<>>]

\* A start that forgets to look at the breaker.
circuitStopsStart_AsNever == FALSE

\* startWorker's guard: if (this.circuitBroken) { warn; return }
circuitStopsStart == circuitBroken

\* new Worker(script) with the 'error' and 'exit' handlers registered, and
\* the mailbox startWorker's replay leaves it with; `replayed` counts the
\* envelopes of that replay.
newWorker(posted) ==
    [status |-> "running", posted |-> posted, replayed |-> Len(posted),
     terminateCalls |-> 0, failures |-> 0]

\* A start that leaves the restart counter as it is.
countAfterStart_Kept(count) == count

\* startWorker's last statement: this.restartCount = 0.
countAfterStart(count) == 0

\* startWorker() on the worker list `ws`.
startWorker(ws) ==
    IF circuitStopsStart
    THEN /\ workers' = ws
         /\ circuitWarns' = circuitWarns + 1
         /\ UNCHANGED <<worker, messageQueue, restartCount>>
    ELSE LET r == replay(messageQueue)
         IN  /\ workers' = Append(ws, newWorker(postAll(<<>>, r.posted)))
             /\ UNCHANGED circuitWarns
             /\ worker' = Len(ws) + 1
             /\ messageQueue' = r.rest
             /\ restartCount' = countAfterStart(restartCount)

\* A breaker that opens one failure early.
opensCircuit_AtLimit(count) == count >= maxRestarts

\* handleWorkerFailure's test after the increment.
opensCircuit(count) == count > maxRestarts

\* handleWorkerFailure()
handleWorkerFailure ==
    /\ worker' = 0
    /\ restartCount' = restartCount + 1
    /\ IF opensCircuit(restartCount + 1)
       THEN /\ circuitBroken' = TRUE
            /\ circuitReports' = circuitReports + 1
            /\ UNCHANGED restartTimers
       ELSE /\ restartTimers' = restartTimers + 1
            /\ UNCHANGED <<circuitBroken, circuitReports>>

\* The setTimeout(() => this.startWorker(), restartDelay) callback.
WorkerRestartTimer ==
    /\ restartTimers > 0
    /\ circuitStopsStart \/ Len(workers) < wScope.workers
    /\ restartTimers' = restartTimers - 1
    /\ startWorker(workers)
    /\ UNCHANGED <<circuitBroken, circuitReports, wAccepted, wCloseCalls, wScope>>
    /\ UNCHANGED <<httpVars, smartVars, bufferedVars, program, dropped, loggerVars, fileVars>>

\* Worker w emits 'error'.
WorkerErrorEvent(w) ==
    /\ workers[w].status = "running"
    /\ workers' = [workers EXCEPT ![w] =
                      [@ EXCEPT !.status = "errored", !.failures = @ + 1]]
    /\ handleWorkerFailure
    /\ UNCHANGED <<messageQueue, circuitWarns, wAccepted, wCloseCalls, wScope>>
    /\ UNCHANGED <<httpVars, smartVars, bufferedVars, program, dropped, loggerVars, fileVars>>

\* The exit codes worker w can exit with.
exitCodes(w) ==
    IF workers[w].status = "errored" \/ workers[w].terminateCalls > 0
    THEN {1}
    ELSE {0, 1}

\* Worker w emits 'exit' with `code`; a close() awaiting its terminate()
\* resumes after the handlers and clears this.worker.
WorkerExitEvent(w, code) ==
    /\ workers[w].status \in {"running", "errored"}
    /\ code \in exitCodes(w)
    /\ IF code # 0
       THEN /\ workers' = [workers EXCEPT ![w] =
                              [@ EXCEPT !.status = "exited", !.failures = @ + 1]]
            /\ handleWorkerFailure
       ELSE /\ workers' = [workers EXCEPT ![w] = [@ EXCEPT !.status = "exited"]]
            /\ worker' = IF workers[w].terminateCalls > 0 THEN 0 ELSE worker
            /\ UNCHANGED <<restartCount, circuitBroken, circuitReports, restartTimers>>
    /\ UNCHANGED <<messageQueue, circuitWarns, wAccepted, wCloseCalls, wScope>>
    /\ UNCHANGED <<httpVars, smartVars, bufferedVars, program, dropped, loggerVars, fileVars>>

\* write(entry)
WorkerWrite(level) ==
    LET entry == [level |-> level, message |-> wAccepted + 1]
    IN  IF entry.level < workerMinLevel
        THEN drop(entry, FALSE)
        ELSE /\ wAccepted < program.writes
             /\ wAccepted' = wAccepted + 1
             /\ IF worker # 0
                THEN /\ workers' = [workers EXCEPT ![worker] =
                          [@ EXCEPT !.posted = postMessage(@, logEnvelope(format(entry)))]]
                     /\ UNCHANGED messageQueue
                ELSE /\ messageQueue' = Append(messageQueue, format(entry))
                     /\ UNCHANGED workers
             /\ UNCHANGED <<worker, restartCount, circuitBroken, restartTimers,
                            circuitReports, circuitWarns, wCloseCalls, wScope>>
             /\ UNCHANGED <<httpVars, smartVars, bufferedVars, program, dropped, loggerVars, fileVars>>

\* close(), up to its await of terminate(); on a worker that has already
\* exited terminate() resolves at once and close() clears the handle.
WorkerClose ==
    /\ wCloseCalls < wScope.closes
    /\ wCloseCalls' = wCloseCalls + 1
    /\ IF worker # 0
       THEN /\ workers' = [workers EXCEPT ![worker] =
                   [@ EXCEPT !.posted = postMessage(@, closeEnvelope),
                             !.terminateCalls = @ + 1]]
            /\ worker' = IF workers[worker].status = "exited" THEN 0 ELSE worker
       ELSE UNCHANGED <<workers, worker>>
    /\ UNCHANGED <<messageQueue, restartCount, circuitBroken, restartTimers,
                   circuitReports, circuitWarns, wAccepted, wScope>>
    /\ UNCHANGED <<httpVars, smartVars, bufferedVars, program, dropped, loggerVars, fileVars>>

\* new WorkerTransport(script): the constructor has called startWorker().
Constructed ==
    /\ workers = <<newWorker(<<>>)>>
    /\ worker = 1
    /\ messageQueue = <<>>
    /\ restartCount = 0
    /\ circuitBroken = FALSE
    /\ restartTimers = 0
    /\ circuitReports = 0
    /\ circuitWarns = 0
    /\ wAccepted = 0
    /\ wCloseCalls = 0
    /\ HttpIdle
    /\ SmartIdle
    /\ BufferedIdle
    /\ LoggerIdle
    /\ FileIdle

\* Few workers, every mailbox observed: the replay of the queue.
InitWorker ==
    /\ Constructed
    /\ constructs("worker", WMaxWrites, 0)
    /\ wScope = [workers |-> ReplayWorkers, closes |-> WMaxCloses, posts |-> TRUE]

\* Enough workers for the breaker to trip; the mailboxes are not observed.
InitBreaker ==
    /\ Constructed
    /\ constructs("worker", BreakerWrites, 0)
    /\ wScope = [workers |-> MaxWorkers, closes |-> 0, posts |-> FALSE]

\* Two close() calls on a transport that may restart once.
InitClose ==
    /\ Constructed
    /\ constructs("worker", CloseWrites, 0)
    /\ wScope = [workers |-> CloseWorkers, closes |-> CloseCalls, posts |-> TRUE]

NextWorker ==
    \/ \E level \in WriteLevels : WorkerWrite(level)
    \/ WorkerClose
    \/ WorkerRestartTimer
    \/ \E w \in 1..Len(workers) : WorkerErrorEvent(w)
    \/ \E w \in 1..Len(workers) : \E code \in {0, 1} : WorkerExitEvent(w, code)

SpecWorker == InitWorker /\ [][NextWorker]_vars

SpecClose == InitClose /\ [][NextWorker]_vars

\* close() is left out of the breaker's specification: all it does to the
\* transport is make the current worker exit with code 1, which a running
\* worker may do here at any time.
NextBreaker ==
    \/ \E level \in WriteLevels : WorkerWrite(level)
    \/ WorkerRestartTimer
    \/ \E w \in 1..Len(workers) : WorkerErrorEvent(w)
    \/ \E w \in 1..Len(workers) : \E code \in {0, 1} : WorkerExitEvent(w, code)

SpecBreaker == InitBreaker /\ [][NextBreaker]_vars

(***************************************************************************)
(* Claims about WorkerTransport.                                           *)
(***************************************************************************)
\* The message ids of the 'log' envelopes of a mailbox, in posting order.
LogIds(posted) ==
    LET idx == {i \in 1..Len(posted) : posted[i].type = "log"}
        F[i \in 0..Len(posted)] ==
            IF i = 0 THEN <<>>
            ELSE IF i \in idx THEN Append(F[i - 1], posted[i].data.message)
            ELSE F[i - 1]
    IN  F[Len(posted)]

QueueIds == [i \in 1..Len(messageQueue) |-> messageQueue[i].message]

Increasing(ids) == \A i \in 1..Len(ids) : \A j \in 1..Len(ids) : i < j => ids[i] < ids[j]

\* Number of places an accepted message is held in: the queue and the mailboxes.
WOccurrences(m) ==
    Cardinality({i \in 1..Len(messageQueue) : messageQueue[i].message = m})
    + Cardinality({p \in UNION {{<<w, i>> : i \in 1..Len(workers[w].posted)} :
                                    w \in 1..Len(workers)} :
                      /\ workers[p[1]].posted[p[2]].type = "log"
                      /\ workers[p[1]].posted[p[2]].data.message = m})

\* C7: a message written while no worker is held goes to the queue; a spawn
\* posts the whole queue to the new worker, in write order, and leaves the
\* queue empty; every mailbox lists its messages in write order (replayed
\* ones before those written after the spawn) and every accepted message is
\* in exactly one place, the queue or one mailbox.
C7_ReplayInOrder ==
    /\ [](/\ worker # 0 => messageQueue = <<>>
          /\ Increasing(QueueIds)
          /\ \A w \in 1..Len(workers) : Increasing(LogIds(workers[w].posted))
          /\ \A m \in 1..wAccepted : WOccurrences(m) = 1)
    /\ [][/\ (worker = 0 /\ wAccepted' = wAccepted + 1) =>
                /\ Len(messageQueue') = Len(messageQueue) + 1
                /\ messageQueue'[Len(messageQueue')].message = wAccepted'
          /\ Len(workers') > Len(workers) =>
                /\ LogIds(workers'[Len(workers')].posted) = QueueIds
                /\ messageQueue' = <<>>]_vars

C7_Witness ==
    \E w \in 2..Len(workers) :
        /\ workers[w].replayed = 2
        /\ LogIds(workers[w].posted) = <<1, 2>>
        /\ messageQueue = <<>>

\* The workers whose handlers have called handleWorkerFailure.
FailedWorkers == {w \in 1..Len(workers) : workers[w].failures > 0}

\* C8: when every failure so far was the single failure of a worker and
\* more than maxRestarts workers have failed that way, the circuit is open.
C8_BreakerTripsOnRepeatedFailure ==
    (/\ \A w \in 1..Len(workers) : workers[w].failures <= 1
     /\ \A w \in 1..Len(workers) : w # worker => workers[w].failures = 1
     /\ Cardinality(FailedWorkers) > maxRestarts)
    => circuitBroken

\* C9: once the circuit is open it stays open, no worker is constructed any
\* more (a restart timer that fires constructs none), the handle stays
\* empty and an accepted write is appended to the queue.
C9_CircuitOpenIsTerminal ==
    /\ [](circuitBroken => worker = 0)
    /\ [][circuitBroken =>
            /\ circuitBroken'
            /\ Len(workers') = Len(workers)
            /\ wAccepted' > wAccepted =>
                  /\ Len(messageQueue') = Len(messageQueue) + 1
                  /\ \A i \in 1..Len(messageQueue) : messageQueue'[i] = messageQueue[i]
                  /\ messageQueue'[Len(messageQueue')].message = wAccepted']_vars

C9_Witness ==
    /\ circuitBroken
    /\ circuitWarns >= 1
    /\ restartTimers >= 1
    /\ messageQueue # <<>>

\* C10: the opening of the circuit is reported at most once.
C10_CircuitReportedOnce == circuitReports <= 1

\* Number of {type: 'close'} envelopes posted to worker w.
CloseEnvelopes(w) ==
    Cardinality({i \in 1..Len(workers[w].posted) : workers[w].posted[i].type = "close"})

\* C11: whatever the number of close() calls, a worker is posted the close
\* envelope at most once and has terminate() called at most once; a close()
\* with no worker held changes nothing of the transport.
C11_CloseIdempotent ==
    /\ [](\A w \in 1..Len(workers) :
            workers[w].terminateCalls <= 1 /\ CloseEnvelopes(w) <= 1)
    /\ [][(wCloseCalls' > wCloseCalls /\ worker = 0) =>
            UNCHANGED <<worker, workers, messageQueue, restartCount, restartTimers>>]_vars

\* C12: once close() has been called no worker is constructed any more (a
\* restart timer pending at the call constructs none) and no restart is
\* scheduled any more (the exit of the terminated worker schedules none).
C12_CloseCancelsRecovery ==
    [][wCloseCalls > 0 =>
          /\ Len(workers') = Len(workers)
          /\ restartTimers' <= restartTimers]_vars

(***************************************************************************)
(* SmartFileTransport.                                                     *)
(*                                                                         *)
(* Time is counted in ticks (one tick is 1000 ms where a claim gives       *)
(* milliseconds).  A timer holds the ticks left until it fires; a timer    *)
(* that is due fires before the next tick elapses.  A timeout that has     *)
(* fired leaves a stale handle in this.idleTimer, on which clearTimeout    *)
(* does nothing: the model holds Undefined for it.                         *)
(***************************************************************************)
smartMinLevel == LogLevel.INFO

\* Levels the producers log at on a local sink: one below minLevel, the
\* lowest and the highest accepted one.
FileWriteLevels == {LogLevel.DEBUG, LogLevel.INFO, LogLevel.FATAL}

\* The AutoFlushConfig values the sink is constructed with; every field but
\* `enabled` is optional.
AutoFlushConfigs ==
    [enabled : BOOLEAN, interval : {Undefined, IntervalTicks}, onSize : {Undefined, SizeN},
     onLevel : {Undefined} \cup 0..5, onIdle : {Undefined, IdleTicks}]

\* The line separator of join('\n') and the trailing '\n', as one piece of
\* the data of a stream write.
Newline == [level |-> "\n", message |-> 0]

\* lines.join('\n') + '\n': the data of one stream write, piece by piece.
RECURSIVE joinLines(_)
joinLines(lines) ==
    IF Len(lines) = 0 THEN <<Newline>>
    ELSE IF Len(lines) = 1 THEN <<lines[1], Newline>>
    ELSE <<lines[1], Newline>> \o joinLines(Tail(lines))

\* stream.write(data, callback)
streamWrite(stream, data) ==
    [stream EXCEPT !.writes = Append(@, data),
                   !.writesAfterEnd = IF stream.ends > 0 THEN @ + 1 ELSE @]

\* stream.end(callback)
streamEnd(stream) == [stream EXCEPT !.ends = @ + 1]

\* A write callback that swallows the error without logging it.
writeCallback_Silent(stream, error) ==
    [stream EXCEPT !.completed = @ + 1,
                   !.failed = IF error THEN @ \cup {stream.completed + 1} ELSE @]

\* The callback flush() hands to stream.write(), run by the stream for its
\* next uncompleted write: (error) => { if (error) console.error(...) }.
writeCallback(stream, error) ==
    [stream EXCEPT !.completed = @ + 1,
                   !.failed = IF error THEN @ \cup {stream.completed + 1} ELSE @,
                   !.errorsLogged = IF error THEN @ + 1 ELSE @]

\* A flush() without the test for an empty buffer.
fileFlush_NoEmptyCheck(buf, stream) ==
    [buffer |-> <<>>, stream |-> streamWrite(stream, joinLines(buf))]

\* flush() of a local sink on the buffer `buf`: the buffer and the stream
\* it leaves.
fileFlush(buf, stream) ==
    IF Len(buf) = 0
    THEN [buffer |-> buf, stream |-> stream]
    ELSE LET sp == splice0(buf)
         IN  [buffer |-> sp.rest, stream |-> streamWrite(stream, joinLines(sp.removed))]

\* A close() that ends the stream before its final flush.
flushThenEnd_EndFirst(buf, stream) == fileFlush(buf, streamEnd(stream))

\* close()'s last two steps: this.flush(), then this.writeStream.end().
flushThenEnd(buf, stream) ==
    LET f == fileFlush(buf, stream)
    IN  [buffer |-> f.buffer, stream |-> streamEnd(f.stream)]

\* A reset that leaves a pending timeout running.
resetIdleTimer_KeepPending ==
    IF idleTimer # Undefined THEN idleTimer
    ELSE IF Truthy(autoFlush.onIdle) THEN autoFlush.onIdle ELSE Undefined

\* resetIdleTimer(): the pending timeout is cleared and, when onIdle is
\* configured, a new one is set.
resetIdleTimer ==
    IF Truthy(autoFlush.onIdle) THEN autoFlush.onIdle ELSE Undefined

\* write()'s severity test.
levelTrigger(entry) == Truthy(autoFlush.onLevel) /\ entry.level >= autoFlush.onLevel

\* A size test that is late by one record.
sizeTrigger_OffByOne(buf) == Truthy(autoFlush.onSize) /\ Len(buf) > autoFlush.onSize

\* write()'s size test on the buffer after the push.
sizeTrigger(buf) == Truthy(autoFlush.onSize) /\ Len(buf) >= autoFlush.onSize

\* A write() that flushes once for each condition that holds.
flushOnTriggers_PerCondition(entry, pushed, stream) ==
    LET data == joinLines(pushed)
        s1 == IF levelTrigger(entry) THEN streamWrite(stream, data) ELSE stream
        s2 == IF sizeTrigger(pushed) THEN streamWrite(s1, data) ELSE s1
    IN  [buffer |-> IF levelTrigger(entry) \/ sizeTrigger(pushed) THEN <<>> ELSE pushed,
         stream |-> s2]

\* write() after the push: shouldFlush is set by either condition and
\* flush() is called once if it is set.
flushOnTriggers(entry, pushed, stream) ==
    IF levelTrigger(entry) \/ sizeTrigger(pushed)
    THEN fileFlush(pushed, stream)
    ELSE [buffer |-> pushed, stream |-> stream]

\* A door that does not look at isClosing.
smartDoorShut_IgnoresClosing(entry) == entry.level < smartMinLevel

\* write()'s door: below minLevel, or closing.
smartDoorShut(entry) == entry.level < smartMinLevel \/ isClosing

\* write(entry)
SmartWrite(level) ==
    LET entry == [level |-> level, message |-> sAccepted + 1]
    IN  IF smartDoorShut(entry)
        THEN drop(entry, isClosing)
        ELSE /\ sAccepted < program.writes
             /\ sAccepted' = sAccepted + 1
             /\ LET f == flushOnTriggers(entry, push(buffer, format(entry)), writeStream)
                IN  /\ buffer' = f.buffer
                    /\ writeStream' = f.stream
             /\ idleTimer' = resetIdleTimer
             /\ sinceWrite' = 0
             /\ UNCHANGED <<flushTimer, isClosing, autoFlush, sCloseCalls>>
             /\ UNCHANGED <<httpVars, workerVars, bufferedVars, program, dropped, loggerVars, fileVars>>

\* The setInterval callback: this.flush(); the interval stays armed.
SmartIntervalFire ==
    /\ flushTimer = 0
    /\ flushTimer' = autoFlush.interval
    /\ LET f == fileFlush(buffer, writeStream)
       IN  buffer' = f.buffer /\ writeStream' = f.stream
    /\ UNCHANGED <<idleTimer, isClosing, autoFlush, sinceWrite, sAccepted, sCloseCalls>>
    /\ UNCHANGED <<httpVars, workerVars, bufferedVars, program, dropped, loggerVars, fileVars>>

\* The idle setTimeout callback: this.flush().
SmartIdleFire ==
    /\ idleTimer = 0
    /\ idleTimer' = Undefined
    /\ LET f == fileFlush(buffer, writeStream)
       IN  buffer' = f.buffer /\ writeStream' = f.stream
    /\ UNCHANGED <<flushTimer, isClosing, autoFlush, sinceWrite, sAccepted, sCloseCalls>>
    /\ UNCHANGED <<httpVars, workerVars, bufferedVars, program, dropped, loggerVars, fileVars>>

\* A timer after one more tick.
tickDown(t) == IF t > 0 THEN t - 1 ELSE t

\* One tick elapses; sinceWrite stops counting one tick beyond onIdle.
SmartAdvance ==
    /\ flushTimer # 0
    /\ idleTimer # 0
    /\ flushTimer' = tickDown(flushTimer)
    /\ idleTimer' = tickDown(idleTimer)
    /\ sinceWrite' = IF sinceWrite <= IdleTicks THEN sinceWrite + 1 ELSE sinceWrite
    /\ UNCHANGED <<buffer, isClosing, autoFlush, writeStream, sAccepted, sCloseCalls>>
    /\ UNCHANGED <<httpVars, workerVars, bufferedVars, program, dropped, loggerVars, fileVars>>

\* close(): isClosing = true, both timers cleared, the final flush, end().
SmartClose ==
    /\ sCloseCalls < SMaxCloses
    /\ sCloseCalls' = sCloseCalls + 1
    /\ isClosing' = TRUE
    /\ flushTimer' = Undefined
    /\ idleTimer' = Undefined
    /\ LET f == flushThenEnd(buffer, writeStream)
       IN  /\ buffer' = f.buffer
           /\ writeStream' = f.stream
    /\ UNCHANGED <<autoFlush, sinceWrite, sAccepted>>
    /\ UNCHANGED <<httpVars, workerVars, bufferedVars, program, dropped, loggerVars, fileVars>>

\* setupAutoFlush(): the interval timer, and the first idle timer.
setupAutoFlush(config) ==
    /\ flushTimer = IF Truthy(config.interval) THEN config.interval ELSE Undefined
    /\ idleTimer = IF Truthy(config.onIdle) THEN config.onIdle ELSE Undefined

\* new SmartFileTransport(filePath, formatter, minLevel, autoFlush)
NewSmart ==
    /\ autoFlush \in AutoFlushConfigs
    /\ buffer = <<>>
    /\ isClosing = FALSE
    /\ writeStream = newStream
    /\ IF autoFlush.enabled
       THEN setupAutoFlush(autoFlush)
       ELSE flushTimer = Undefined /\ idleTimer = Undefined
    /\ sinceWrite = 0
    /\ sAccepted = 0
    /\ sCloseCalls = 0
    /\ HttpIdle
    /\ WorkerIdle
    /\ BufferedIdle
    /\ LoggerIdle
    /\ FileIdle

InitSmart == NewSmart /\ constructs("smart", SMaxWrites, MaxDropped)

NextSmart ==
    \/ \E level \in FileWriteLevels : SmartWrite(level)
    \/ SmartIntervalFire
    \/ SmartIdleFire
    \/ SmartAdvance
    \/ SmartClose

SpecSmart == InitSmart /\ [][NextSmart]_vars

(***************************************************************************)
(* BufferedFileTransport.                                                  *)
(***************************************************************************)
bufferedMinLevel == LogLevel.INFO
bufferSize == SizeN
flushInterval == IntervalTicks

\* write()'s door: below minLevel, or closing.
bufferedDoorShut(entry) == entry.level < bufferedMinLevel \/ bfIsClosing

\* write(entry)
BufferedWrite(level) ==
    LET entry == [level |-> level, message |-> bfAccepted + 1]
    IN  IF bufferedDoorShut(entry)
        THEN drop(entry, bfIsClosing)
        ELSE /\ bfAccepted < program.writes
             /\ bfAccepted' = bfAccepted + 1
             /\ LET pushed == push(bfBuffer, format(entry))
                    f == IF Len(pushed) >= bufferSize
                         THEN fileFlush(pushed, bfWriteStream)
                         ELSE [buffer |-> pushed, stream |-> bfWriteStream]
                IN  /\ bfBuffer' = f.buffer
                    /\ bfWriteStream' = f.stream
             /\ UNCHANGED <<bfFlushTimer, bfIsClosing, bfCloseCalls>>
             /\ UNCHANGED <<httpVars, workerVars, smartVars, program, dropped, loggerVars, fileVars>>

\* The setInterval callback: this.flush(); the interval stays armed.
BufferedIntervalFire ==
    /\ bfFlushTimer = 0
    /\ bfFlushTimer' = flushInterval
    /\ LET f == fileFlush(bfBuffer, bfWriteStream)
       IN  bfBuffer' = f.buffer /\ bfWriteStream' = f.stream
    /\ UNCHANGED <<bfIsClosing, bfAccepted, bfCloseCalls>>
    /\ UNCHANGED <<httpVars, workerVars, smartVars, program, dropped, loggerVars, fileVars>>

\* One tick elapses.
BufferedAdvance ==
    /\ bfFlushTimer > 0
    /\ bfFlushTimer' = tickDown(bfFlushTimer)
    /\ UNCHANGED <<bfBuffer, bfIsClosing, bfWriteStream, bfAccepted, bfCloseCalls>>
    /\ UNCHANGED <<httpVars, workerVars, smartVars, program, dropped, loggerVars, fileVars>>

\* close(): isClosing = true, the interval cleared, the final flush, end().
BufferedClose ==
    /\ bfCloseCalls < SMaxCloses
    /\ bfCloseCalls' = bfCloseCalls + 1
    /\ bfIsClosing' = TRUE
    /\ bfFlushTimer' = Undefined
    /\ LET f == flushThenEnd(bfBuffer, bfWriteStream)
       IN  /\ bfBuffer' = f.buffer
           /\ bfWriteStream' = f.stream
    /\ UNCHANGED bfAccepted
    /\ UNCHANGED <<httpVars, workerVars, smartVars, program, dropped, loggerVars, fileVars>>

\* new BufferedFileTransport(filePath, formatter, minLevel, bufferSize,
\* flushInterval): the interval timer is armed; the stream it is given by
\* createWriteStream may be a destroyed one.
NewBuffered ==
    /\ bfBuffer = <<>>
    /\ bfIsClosing = FALSE
    /\ bfWriteStream \in {newStream, destroyedStream}
    /\ bfFlushTimer = flushInterval
    /\ bfAccepted = 0
    /\ bfCloseCalls = 0
    /\ HttpIdle
    /\ WorkerIdle
    /\ SmartIdle
    /\ LoggerIdle
    /\ FileIdle

InitBuffered == NewBuffered /\ constructs("buffered", SMaxWrites, MaxDropped)

NextBuffered ==
    \/ \E level \in FileWriteLevels : BufferedWrite(level)
    \/ BufferedIntervalFire
    \/ BufferedAdvance
    \/ BufferedClose

SpecBuffered == InitBuffered /\ [][NextBuffered]_vars

(***************************************************************************)
(* The local sinks on a stream whose writes complete, some with an error.  *)
(***************************************************************************)
\* The stream may report an error for its next uncompleted write.
mayComplete(stream, error) ==
    /\ stream.completed < Len(stream.writes)
    /\ error => Cardinality(stream.failed) < MaxStreamErrors

\* The stream runs the callback of SmartFileTransport.flush().
SmartWriteCallback(error) ==
    /\ mayComplete(writeStream, error)
    /\ writeStream' = writeCallback(writeStream, error)
    /\ UNCHANGED <<buffer, flushTimer, idleTimer, isClosing, autoFlush,
                   sinceWrite, sAccepted, sCloseCalls>>
    /\ UNCHANGED <<httpVars, workerVars, bufferedVars, program, dropped, loggerVars, fileVars>>

\* The stream runs the callback of BufferedFileTransport.flush().
BufferedWriteCallback(error) ==
    /\ mayComplete(bfWriteStream, error)
    /\ bfWriteStream' = writeCallback(bfWriteStream, error)
    /\ UNCHANGED <<bfBuffer, bfFlushTimer, bfIsClosing, bfAccepted, bfCloseCalls>>
    /\ UNCHANGED <<httpVars, workerVars, smartVars, program, dropped, loggerVars, fileVars>>

InitFaults ==
    \/ NewSmart /\ constructs("smart", FaultWrites, 0)
    \/ NewBuffered /\ constructs("buffered", FaultWrites, 0)

NextFaults ==
    \/ program.sink = "smart" /\ NextSmart
    \/ program.sink = "smart" /\ \E error \in BOOLEAN : SmartWriteCallback(error)
    \/ program.sink = "buffered" /\ NextBuffered
    \/ program.sink = "buffered" /\ \E error \in BOOLEAN : BufferedWriteCallback(error)

SpecFaults == InitFaults /\ [][NextFaults]_vars

(***************************************************************************)
(* Logger over a list of transports whose write() and close() may fail.    *)
(***************************************************************************)
\* Logger's minLevel (the constructor's default).
loggerMinLevel == LogLevel.INFO

\* The transports of the Logger tests: MockTransport (write() returns void,
\* throws, or returns a resolved or a rejected promise; close() resolves), a
\* transport without close(), and one whose close() rejects.
TransportKinds ==
    [write : {"void", "throws", "resolves", "rejects"}, close : {"resolves"}]
        \cup [write : {"void"}, close : {"none", "rejects"}]

\* A transport of kind `kind` that has received nothing yet.
newTransport(kind) ==
    [write |-> kind.write, close |-> kind.close, writes |-> <<>>, closed |-> 0]

\* transport.write(entry): the transport afterwards and what the call did:
\* "throw", or the value returned ("void", "resolved" or "rejected" promise).
transportWrite(t, entry) ==
    IF t.write = "throws"
    THEN [transport |-> t, result |-> "throw"]
    ELSE [transport |-> [t EXCEPT !.writes = Append(@, entry)],
          result |-> CASE t.write = "void" -> "void"
                       [] t.write = "resolves" -> "resolved"
                       [] t.write = "rejects" -> "rejected"]

\* A forEach callback without try/catch: the exception leaves log().
tryWrite_NoCatch(t, entry) ==
    LET w == transportWrite(t, entry)
    IN  [transport |-> w.transport,
         errors |-> <<>>,
         rejected |-> IF w.result = "rejected" THEN 1 ELSE 0,
         thrown |-> w.result = "throw"]

\* The forEach callback of log(): try { result = transport.write(entry);
\* if it is a promise, result.catch(...) } catch { console.error(...) }.
tryWrite(t, entry) ==
    LET w == transportWrite(t, entry)
    IN  [transport |-> w.transport,
         errors |-> IF w.result = "throw" THEN <<"Sync transport failed:">> ELSE <<>>,
         rejected |-> IF w.result = "rejected" THEN 1 ELSE 0,
         thrown |-> FALSE]

\* this.transports.forEach(...): an exception that leaves the callback ends
\* the loop.
RECURSIVE forEachWrite(_, _)
forEachWrite(ts, entry) ==
    IF ts = <<>>
    THEN [transports |-> <<>>, errors |-> <<>>, rejected |-> 0, thrown |-> FALSE]
    ELSE LET r == tryWrite(Head(ts), entry)
         IN  IF r.thrown
             THEN [transports |-> <<r.transport>> \o Tail(ts), errors |-> r.errors,
                   rejected |-> r.rejected, thrown |-> TRUE]
             ELSE LET rest == forEachWrite(Tail(ts), entry)
                  IN  [transports |-> <<r.transport>> \o rest.transports,
                       errors |-> r.errors \o rest.errors,
                       rejected |-> r.rejected + rest.rejected,
                       thrown |-> rest.thrown]

\* log(level, message)
LoggerLog(level) ==
    LET entry == [level |-> level, message |-> logCalls + 1]
    IN  IF level < loggerMinLevel
        THEN drop(entry, FALSE)
        ELSE /\ logCalls < program.writes
             /\ logCalls' = logCalls + 1
             /\ LET r == forEachWrite(transports, entry)
                IN  /\ transports' = r.transports
                    /\ consoleErrors' = consoleErrors \o r.errors
                    /\ catchPending' = catchPending + r.rejected
                    /\ logThrew' = IF r.thrown THEN logThrew + 1 ELSE logThrew
             /\ UNCHANGED closeResult
             /\ UNCHANGED <<httpVars, workerVars, smartVars, bufferedVars, program, dropped,
                            fileVars>>

\* The handler of result.catch(...) runs for one rejected promise.
LoggerCatch ==
    /\ catchPending > 0
    /\ catchPending' = catchPending - 1
    /\ consoleErrors' = Append(consoleErrors, "Async transport failed:")
    /\ UNCHANGED <<transports, logCalls, logThrew, closeResult>>
    /\ UNCHANGED <<httpVars, workerVars, smartVars, bufferedVars, program, dropped,
                   fileVars>>

\* transport.close!() of the transports that implement close().
transportClose(t) == IF t.close = "none" THEN t ELSE [t EXCEPT !.closed = @ + 1]

\* Promise.all over the promises of the close() calls.
promiseAll(ts) ==
    IF \E i \in 1..Len(ts) : ts[i].close = "rejects" THEN "rejected" ELSE "resolved"

\* close(): every transport with a close() is closed in the call.
LoggerClose ==
    /\ closeResult = "none"
    /\ closeResult' = "pending"
    /\ transports' = [i \in 1..Len(transports) |-> transportClose(transports[i])]
    /\ UNCHANGED <<logCalls, logThrew, consoleErrors, catchPending>>
    /\ UNCHANGED <<httpVars, workerVars, smartVars, bufferedVars, program, dropped,
                   fileVars>>

\* `await Promise.all(...)` settles and with it the promise of close().
LoggerCloseSettles ==
    /\ closeResult = "pending"
    /\ closeResult' = promiseAll(transports)
    /\ UNCHANGED <<transports, logCalls, logThrew, consoleErrors, catchPending>>
    /\ UNCHANGED <<httpVars, workerVars, smartVars, bufferedVars, program, dropped,
                   fileVars>>

\* new Logger(LogLevel.INFO, transports)
NewLogger ==
    /\ \E n \in 1..MaxTransports :
          \E kinds \in [1..n -> TransportKinds] :
             transports = [i \in 1..n |-> newTransport(kinds[i])]
    /\ logCalls = 0
    /\ logThrew = 0
    /\ consoleErrors = <<>>
    /\ catchPending = 0
    /\ closeResult = "none"
    /\ HttpIdle
    /\ WorkerIdle
    /\ SmartIdle
    /\ BufferedIdle
    /\ FileIdle

InitLogger == NewLogger /\ constructs("logger", LoggerCalls, MaxDropped)

NextLogger ==
    \/ \E level \in WriteLevels : LoggerLog(level)
    \/ LoggerCatch
    \/ LoggerClose
    \/ LoggerCloseSettles

SpecLogger == InitLogger /\ [][NextLogger]_vars

(***************************************************************************)
(* FileTransport: every write() is chained onto the promise writeQueue.    *)
(***************************************************************************)
\* FileTransport's minLevel (the constructor's default).
fileMinLevel == LogLevel.INFO

\* A chain whose next task never waits for the one before.
chainSettled_Always(stream) == TRUE

\* The promise the next task is chained on has settled: every stream write
\* issued so far has had its callback, which resolved or rejected the task's
\* promise, and the catch handler has turned a rejection into a resolution.
chainSettled(stream) == stream.completed = Len(stream.writes)

\* The next task of the chain runs, if there is one:
\* this.writeStream.write(formatted + '\n', callback).
startNext(q, stream) ==
    IF q = <<>>
    THEN [queue |-> q, stream |-> stream]
    ELSE [queue |-> Tail(q), stream |-> streamWrite(stream, <<Head(q), Newline>>)]

\* write(entry): the task is chained; it does not run during the call.
FileWrite(level) ==
    LET entry == [level |-> level, message |-> ftAccepted + 1]
    IN  IF entry.level < fileMinLevel
        THEN drop(entry, FALSE)
        ELSE /\ ftAccepted < program.writes
             /\ ftAccepted' = ftAccepted + 1
             /\ writeQueue' = Append(writeQueue, format(entry))
             /\ UNCHANGED <<ftWriteStream, ftFlushTimer, ftQueueErrors, ftCloseAwaits>>
             /\ UNCHANGED <<httpVars, workerVars, smartVars, bufferedVars, program, dropped,
                            loggerVars>>

\* A microtask: the first task chained onto a settled chain runs.
FileIssue ==
    /\ writeQueue # <<>>
    /\ chainSettled(ftWriteStream)
    /\ LET n == startNext(writeQueue, ftWriteStream)
       IN  writeQueue' = n.queue /\ ftWriteStream' = n.stream
    /\ UNCHANGED <<ftFlushTimer, ftAccepted, ftQueueErrors, ftCloseAwaits>>
    /\ UNCHANGED <<httpVars, workerVars, smartVars, bufferedVars, program, dropped,
                   loggerVars>>

\* The stream runs the callback of the write in flight.  With an error it
\* logs 'FileTransport write error:' and rejects, and the catch handler logs
\* 'FileTransport queue error:'; either way the chain goes on and the next
\* task runs in the microtasks that follow.
FileWriteCallback(error) ==
    /\ mayComplete(ftWriteStream, error)
    /\ LET n == startNext(writeQueue, writeCallback(ftWriteStream, error))
       IN  writeQueue' = n.queue /\ ftWriteStream' = n.stream
    /\ ftQueueErrors' = IF error THEN ftQueueErrors + 1 ELSE ftQueueErrors
    /\ UNCHANGED <<ftFlushTimer, ftAccepted, ftCloseAwaits>>
    /\ UNCHANGED <<httpVars, workerVars, smartVars, bufferedVars, program, dropped,
                   loggerVars>>

\* close() up to `await this.writeQueue`: the timer is cleared and the
\* call waits for the tasks chained so far.
FileClose ==
    /\ Len(ftCloseAwaits) + ftWriteStream.ends < FileCloses
    /\ ftFlushTimer' = FALSE
    /\ ftCloseAwaits' = Append(ftCloseAwaits, ftAccepted)
    /\ UNCHANGED <<writeQueue, ftWriteStream, ftAccepted, ftQueueErrors>>
    /\ UNCHANGED <<httpVars, workerVars, smartVars, bufferedVars, program, dropped,
                   loggerVars>>

\* close() after the await: forceFlush() (the stream has no sync(), so it
\* does nothing) and this.writeStream.end(resolve).
FileCloseEnds ==
    /\ ftCloseAwaits # <<>>
    /\ ftWriteStream.completed >= Head(ftCloseAwaits)
    /\ ftWriteStream' = streamEnd(ftWriteStream)
    /\ ftCloseAwaits' = Tail(ftCloseAwaits)
    /\ UNCHANGED <<writeQueue, ftFlushTimer, ftAccepted, ftQueueErrors>>
    /\ UNCHANGED <<httpVars, workerVars, smartVars, bufferedVars, program, dropped,
                   loggerVars>>

\* new FileTransport(filePath): the auto-flush timer is armed.
NewFile ==
    /\ writeQueue = <<>>
    /\ ftWriteStream = newStream
    /\ ftFlushTimer = TRUE
    /\ ftAccepted = 0
    /\ ftQueueErrors = 0
    /\ ftCloseAwaits = <<>>
    /\ HttpIdle
    /\ WorkerIdle
    /\ SmartIdle
    /\ BufferedIdle
    /\ LoggerIdle

InitFile == NewFile /\ constructs("file", FileWrites, MaxDropped)

NextFile ==
    \/ \E level \in FileWriteLevels : FileWrite(level)
    \/ FileIssue
    \/ \E error \in BOOLEAN : FileWriteCallback(error)
    \/ FileClose
    \/ FileCloseEnds

SpecFile == InitFile /\ [][NextFile]_vars

(***************************************************************************)
(* Any one of the four sinks, with the door of write() observed.           *)
(***************************************************************************)
InitSinks ==
    \/ NewHTTP /\ constructs("http", SinkWrites, MaxDropped)
    \/ /\ Constructed
       /\ constructs("worker", SinkWrites, MaxDropped)
       /\ wScope = [workers |-> SinkWorkers, closes |-> WMaxCloses, posts |-> TRUE]
    \/ NewSmart /\ constructs("smart", SinkWrites, MaxDropped)
    \/ NewBuffered /\ constructs("buffered", SinkWrites, MaxDropped)

NextSinks ==
    \/ program.sink = "http" /\ NextHTTP
    \/ program.sink = "worker" /\ NextWorker
    \/ program.sink = "smart" /\ NextSmart
    \/ program.sink = "buffered" /\ NextBuffered

SpecSinks == InitSinks /\ [][NextSinks]_vars

(***************************************************************************)
(* Claims about the door of write() and about the local sinks.             *)
(***************************************************************************)
\* The level a formatted record was logged at.
LevelOf(formatted) == CHOOSE l \in 0..5 : LevelName[l] = formatted.level

\* The formatted records of the data of one stream write.
Lines(data) == SelectSeq(data, LAMBDA piece : piece # Newline)

\* The formatted records a stream has been written, over all its writes.
Written(stream) ==
    UNION {{Lines(stream.writes[k])[i] : i \in 1..Len(Lines(stream.writes[k]))} :
              k \in 1..Len(stream.writes)}

\* C13: whatever the sink, nothing it holds or has handed on was logged
\* below its minLevel: not an entry of the queue or of a batch or request
\* body of the HTTP sink, not a message queued for or posted to a worker,
\* not a record in the buffer of a local sink or in the data of a stream
\* write.
C13_BelowMinLevelNeverStored ==
    /\ \A i \in 1..Len(queue) : queue[i].level >= minLevel
    /\ \A b \in 1..Len(sends) : \A i \in 1..Len(sends[b].batch) :
          /\ sends[b].batch[i].level >= minLevel
          /\ LevelOf(sends[b].body[i]) >= minLevel
    /\ \A i \in 1..Len(messageQueue) : LevelOf(messageQueue[i]) >= workerMinLevel
    /\ \A w \in 1..Len(workers) : \A i \in 1..Len(workers[w].posted) :
          workers[w].posted[i].type = "log" =>
             LevelOf(workers[w].posted[i].data) >= workerMinLevel
    /\ \A i \in 1..Len(buffer) : LevelOf(buffer[i]) >= smartMinLevel
    /\ \A r \in Written(writeStream) : LevelOf(r) >= smartMinLevel
    /\ \A i \in 1..Len(bfBuffer) : LevelOf(bfBuffer[i]) >= bufferedMinLevel
    /\ \A r \in Written(bfWriteStream) : LevelOf(r) >= bufferedMinLevel

C13_Witness ==
    /\ program.sink = "http"
    /\ Len(dropped) = 1
    /\ dropped[1].level < minLevel
    /\ queue # <<>>
    /\ sends # <<>>

\* `lines` joined by newlines with a trailing newline: line, newline, line,
\* newline, ...
Joined(lines) ==
    [i \in 1..(2 * Len(lines)) |-> IF i % 2 = 1 THEN lines[(i + 1) \div 2] ELSE Newline]

\* The record of the latest accepted write of the SmartFileTransport,
\* wherever it is now.
SmartLatest ==
    CHOOSE r \in {buffer[i] : i \in 1..Len(buffer)} \cup Written(writeStream) :
        r.message = sAccepted

\* An accepted write() flushes in the step: one stream write, whose data is
\* the buffer as it was followed by the new record, joined by newlines, and
\* the buffer is left empty.
SmartWriteFlushes ==
    /\ writeStream'.writes = Append(writeStream.writes, Joined(Append(buffer, SmartLatest')))
    /\ buffer' = <<>>

\* An accepted write() only buffers in the step: no stream write.
SmartWriteBuffers ==
    /\ writeStream' = writeStream
    /\ buffer' = Append(buffer, SmartLatest')

\* Only the size trigger is configured.
OnlySize ==
    /\ autoFlush.enabled /\ autoFlush.onSize = SizeN
    /\ autoFlush.interval = Undefined /\ autoFlush.onLevel = Undefined
    /\ autoFlush.onIdle = Undefined

\* C14: with only onSize = N configured, an accepted write that brings the
\* buffer to fewer than N records causes no stream write, the one that
\* brings it to N causes exactly one stream write during the call, whose
\* data is those N records in write order joined by newlines, and leaves
\* the buffer empty; until close() nothing else writes the stream, so the
\* k-th stream write carries records (k-1)N+1 .. kN.
C14_SizeTrigger ==
    /\ []((OnlySize /\ ~isClosing) =>
            /\ Len(writeStream.writes) = sAccepted \div SizeN
            /\ Len(buffer) = sAccepted % SizeN
            /\ \A k \in 1..Len(writeStream.writes) :
                  /\ Len(Lines(writeStream.writes[k])) = SizeN
                  /\ \A i \in 1..SizeN :
                        Lines(writeStream.writes[k])[i].message = (k - 1) * SizeN + i)
    /\ [][(OnlySize /\ sAccepted' > sAccepted) =>
            IF Len(buffer) + 1 < SizeN THEN SmartWriteBuffers ELSE SmartWriteFlushes]_vars

C14_Witness ==
    /\ OnlySize
    /\ ~isClosing
    /\ sAccepted = SizeN + 1
    /\ Len(writeStream.writes) = 1
    /\ Len(buffer) = 1

\* C15: whatever level onLevel is configured as, an accepted write of a
\* record at or above it flushes during the call: one stream write with
\* every record buffered so far and the new record, in write order.
C15_SeverityTrigger ==
    [][(/\ autoFlush.enabled
        /\ autoFlush.onLevel # Undefined
        /\ sAccepted' > sAccepted
        /\ LevelOf(SmartLatest') >= autoFlush.onLevel) => SmartWriteFlushes]_vars

\* Only the idle trigger is configured.
OnlyIdle ==
    /\ autoFlush.enabled /\ autoFlush.onIdle = IdleTicks
    /\ autoFlush.interval = Undefined /\ autoFlush.onLevel = Undefined
    /\ autoFlush.onSize = Undefined

\* C16: with only onIdle = D configured, an accepted write leaves the idle
\* timer with the full D ticks to run and causes no stream write; while
\* records are buffered the timer is pending and due exactly D ticks after
\* the latest write; a stream write before close() happens only D ticks
\* after the latest write, and carries the whole buffer.
C16_IdleTrigger ==
    /\ []((OnlyIdle /\ ~isClosing /\ buffer # <<>>) =>
            /\ idleTimer # Undefined
            /\ idleTimer = IdleTicks - sinceWrite)
    /\ [][OnlyIdle =>
            /\ sAccepted' > sAccepted =>
                  /\ idleTimer' = IdleTicks
                  /\ SmartWriteBuffers
            /\ (Len(writeStream'.writes) > Len(writeStream.writes) /\ ~isClosing') =>
                  /\ sinceWrite = IdleTicks
                  /\ sAccepted' = sAccepted
                  /\ writeStream'.writes = Append(writeStream.writes, Joined(buffer))
                  /\ buffer' = <<>>]_vars

C16_Witness ==
    /\ OnlyIdle
    /\ ~isClosing
    /\ sinceWrite = IdleTicks
    /\ buffer = <<>>
    /\ Len(writeStream.writes) = 1
    /\ Len(Lines(writeStream.writes[1])) = 2

\* C17: with autoFlush.enabled = false nothing but close() writes the
\* stream, whatever the other fields of autoFlush are: no write() call and
\* no passage of time causes a stream write.
C17_DisabledNeverFlushes ==
    [][(~autoFlush.enabled /\ program.sink = "smart" /\ sCloseCalls' = sCloseCalls) =>
          writeStream'.writes = writeStream.writes]_vars

\* C18: however often close() is called on a local sink, end() is called
\* on its stream at most once, and exactly once when close() was called.
C18_CloseEndsOnce ==
    /\ writeStream.ends = (IF sCloseCalls > 0 THEN 1 ELSE 0)
    /\ bfWriteStream.ends = (IF bfCloseCalls > 0 THEN 1 ELSE 0)

\* C19: the first close() of a SmartFileTransport leaves both timers
\* cleared, writes the records still buffered in one stream write issued
\* before end() (none when the buffer is empty) and ends the stream; from
\* then on both timers stay cleared, the buffer stays empty, no step writes
\* the stream, and the stream never gets a write after an end().
C19_CloseOrder ==
    /\ [](/\ isClosing => (flushTimer = Undefined /\ idleTimer = Undefined /\ buffer = <<>>)
          /\ writeStream.writesAfterEnd = 0)
    /\ [][/\ (sCloseCalls' > sCloseCalls /\ ~isClosing) =>
                /\ isClosing'
                /\ writeStream'.writes = IF buffer = <<>> THEN writeStream.writes
                                         ELSE Append(writeStream.writes, Joined(buffer))
                /\ writeStream'.ends = 1
          /\ isClosing => writeStream'.writes = writeStream.writes]_vars

C19_Witness ==
    /\ isClosing
    /\ sCloseCalls = 1
    /\ autoFlush.enabled /\ Truthy(autoFlush.interval) /\ Truthy(autoFlush.onIdle)
    /\ Len(writeStream.writes) = 1
    /\ Len(Lines(writeStream.writes[1])) = 2
    /\ sinceWrite > IdleTicks

\* C20: once close() has been called on a local sink, no step changes its
\* buffer, arms a timer or writes its stream, and no write() is accepted: a
\* write() of any level returns at the door with the sink as it was.
C20_ClosingRejectsWrites ==
    /\ [](\A i \in 1..Len(dropped) : dropped[i].closing => (isClosing \/ bfIsClosing))
    /\ [][/\ isClosing =>
                /\ buffer' = buffer /\ sAccepted' = sAccepted
                /\ flushTimer' = flushTimer /\ idleTimer' = idleTimer
                /\ writeStream'.writes = writeStream.writes
          /\ bfIsClosing =>
                /\ bfBuffer' = bfBuffer /\ bfAccepted' = bfAccepted
                /\ bfFlushTimer' = bfFlushTimer
                /\ bfWriteStream'.writes = bfWriteStream.writes
          /\ Len(dropped') > Len(dropped) => UNCHANGED <<smartVars, bufferedVars>>]_vars

C20_Witness ==
    /\ program.sink = "smart"
    /\ autoFlush.enabled /\ autoFlush.onLevel = LogLevel.ERROR
    /\ Len(dropped) = 1
    /\ dropped[1].closing
    /\ dropped[1].level = LogLevel.FATAL
    /\ sAccepted < program.writes

(***************************************************************************)
(* Claims about stream failures, trigger composition and the interval.      *)
(***************************************************************************)
\* How often record number m is held: in the buffer `buf` and in the data
\* of the writes `stream` has received.
Copies(buf, stream, m) ==
    Cardinality({i \in 1..Len(buf) : buf[i].message = m}) +
    Cardinality({ki \in UNION {{<<k, i>> : i \in 1..Len(stream.writes[k])} :
                                  k \in 1..Len(stream.writes)} :
                    stream.writes[ki[1]][ki[2]].message = m})

\* The step runs a write callback with an error: the error is logged once
\* and neither the buffer nor the writes of the stream change.
FailureIsLogged(buf, buf2, stream, stream2) ==
    stream2.failed # stream.failed =>
        /\ stream2.errorsLogged = stream.errorsLogged + 1
        /\ stream2.writes = stream.writes
        /\ buf2 = buf

\* A step that writes the stream issues one write, whose data is the
\* buffer as it was, followed by the record accepted in the step if there is
\* one, joined by newlines; the buffer is left empty.
FlushesWhole(buf, buf2, stream, stream2, acc, acc2) ==
    Len(stream2.writes) > Len(stream.writes) =>
        LET lines == Lines(stream2.writes[Len(stream2.writes)])
        IN  /\ stream2.writes = Append(stream.writes, Joined(lines))
            /\ buf2 = <<>>
            /\ \/ lines = buf /\ buf # <<>>
               \/ /\ acc2 = acc + 1
                  /\ SubSeq(lines, 1, Len(lines) - 1) = buf
                  /\ lines[Len(lines)].message = acc2

\* C21: when the stream of a local sink reports an error for a flush's
\* write, the callback logs it once and changes nothing else: the records
\* of that write are not put back into the buffer, every accepted record is
\* held exactly once (in the buffer or in one stream write), and the steps
\* that write the stream afterwards still write the whole buffer.
C21_FlushFailureIsLost ==
    /\ [](/\ \A m \in 1..sAccepted : Copies(buffer, writeStream, m) = 1
          /\ \A m \in 1..bfAccepted : Copies(bfBuffer, bfWriteStream, m) = 1
          /\ writeStream.errorsLogged = Cardinality(writeStream.failed)
          /\ bfWriteStream.errorsLogged = Cardinality(bfWriteStream.failed))
    /\ [][/\ FailureIsLogged(buffer, buffer', writeStream, writeStream')
          /\ FailureIsLogged(bfBuffer, bfBuffer', bfWriteStream, bfWriteStream')
          /\ FlushesWhole(buffer, buffer', writeStream, writeStream', sAccepted, sAccepted')
          /\ FlushesWhole(bfBuffer, bfBuffer', bfWriteStream, bfWriteStream',
                          bfAccepted, bfAccepted')]_vars

C21_Witness ==
    /\ program.sink = "buffered"
    /\ bfWriteStream.failed = {1}
    /\ bfWriteStream.completed = 2
    /\ Len(bfWriteStream.writes) = 2
    /\ bfBuffer = <<>>

\* The record accepted in the step satisfies the severity condition and
\* the size condition at once.
BothTriggers ==
    /\ Truthy(autoFlush.onLevel) /\ LevelOf(SmartLatest') >= autoFlush.onLevel
    /\ Truthy(autoFlush.onSize) /\ Len(buffer) + 1 >= autoFlush.onSize

\* C22: one accepted write() of a SmartFileTransport causes at most one
\* stream write, and exactly one when the record satisfies the severity
\* condition and the size condition at once; that stream write carries the
\* whole buffer, the new record included, and leaves the buffer empty.
C22_OneFlushPerWrite ==
    [][sAccepted' > sAccepted =>
          /\ Len(writeStream'.writes) <= Len(writeStream.writes) + 1
          /\ Len(writeStream'.writes) > Len(writeStream.writes) => SmartWriteFlushes
          /\ BothTriggers => SmartWriteFlushes]_vars

C22_Witness ==
    /\ program.sink = "smart"
    /\ autoFlush.enabled /\ autoFlush.onLevel = LogLevel.ERROR /\ autoFlush.onSize = SizeN
    /\ autoFlush.interval = Undefined /\ autoFlush.onIdle = Undefined
    /\ sAccepted = SizeN
    /\ Len(writeStream.writes) = 1
    /\ Len(Lines(writeStream.writes[1])) = SizeN
    /\ LevelOf(Lines(writeStream.writes[1])[SizeN]) = LogLevel.FATAL
    /\ buffer = <<>>

\* What a step may do to an interval timer of period `period`: a tick of
\* time counts it down and writes nothing; at the period boundary it fires,
\* the whole buffer goes to the stream in one write if there is one and
\* nothing is written otherwise, and the same timer starts its next period;
\* close() clears it.  No other step touches it.
IntervalStep(t, t2, period, buf, buf2, stream, stream2, closing2) ==
    t2 # t =>
        \/ /\ t > 0 /\ t2 = t - 1
           /\ stream2 = stream /\ buf2 = buf
        \/ /\ t = 0 /\ t2 = period
           /\ stream2.writes = IF buf = <<>> THEN stream.writes
                                ELSE Append(stream.writes, Joined(buf))
           /\ buf2 = <<>>
        \/ t2 = Undefined /\ closing2

\* C23: the interval timer of a local sink is armed from construction
\* until close(); at every period boundary the whole buffer is written in
\* one stream write if it is non-empty and nothing is written if it is
\* empty, and the timer starts its next period without being re-created.
C23_IntervalTrigger ==
    /\ [](/\ (program.sink = "smart" /\ ~isClosing) =>
                IF autoFlush.enabled /\ Truthy(autoFlush.interval)
                THEN flushTimer \in 0..autoFlush.interval
                ELSE flushTimer = Undefined
          /\ (program.sink = "buffered" /\ ~bfIsClosing) =>
                bfFlushTimer \in 0..flushInterval)
    /\ [][/\ IntervalStep(flushTimer, flushTimer', autoFlush.interval, buffer, buffer',
                          writeStream, writeStream', isClosing')
          /\ IntervalStep(bfFlushTimer, bfFlushTimer', flushInterval, bfBuffer, bfBuffer',
                          bfWriteStream, bfWriteStream', bfIsClosing')]_vars

C23_Witness ==
    /\ program.sink = "buffered"
    /\ ~bfIsClosing
    /\ bfAccepted = 2
    /\ Len(bfWriteStream.writes) = 2
    /\ \A k \in 1..2 : Len(Lines(bfWriteStream.writes[k])) = 1
    /\ bfFlushTimer = flushInterval

(***************************************************************************)
(* Claims about the Logger.                                                *)
(***************************************************************************)
\* The numbers of the records transport t has received, in order.
Received(t) == [j \in 1..Len(t.writes) |-> t.writes[j].message]

\* How often the Logger has logged `text` with console.error.
Logged(text) == Cardinality({j \in 1..Len(consoleErrors) : consoleErrors[j] = text})

\* The transports whose write() behaves as `kind`.
Writing(kind) == {i \in 1..Len(transports) : transports[i].write = kind}

\* C24: whatever transports throw or return rejected promises, no log call
\* throws into the producer, and every transport that does not throw has
\* received every logged record exactly once, in call order; each throw and
\* each rejection is logged with console.error instead.
C24_ErrorsContained ==
    /\ logThrew = 0
    /\ \A i \in 1..Len(transports) :
          Received(transports[i]) =
              IF transports[i].write = "throws" THEN <<>>
              ELSE [j \in 1..logCalls |-> j]
    /\ Logged("Sync transport failed:") = logCalls * Cardinality(Writing("throws"))
    /\ Logged("Async transport failed:") + catchPending =
          logCalls * Cardinality(Writing("rejects"))

C24_Witness ==
    /\ Len(transports) = 3
    /\ transports[1].write = "throws"
    /\ transports[2].write = "rejects"
    /\ transports[3].write = "void"
    /\ logCalls = 2
    /\ Received(transports[3]) = <<1, 2>>
    /\ catchPending = 0

\* C25: the promise of Logger.close() never rejects, also when the close()
\* of one of its transports rejects, and once close() has been called every
\* transport that implements close() has been closed once.
C25_CloseResolves ==
    /\ closeResult # "rejected"
    /\ closeResult # "none" =>
          \A i \in 1..Len(transports) :
             transports[i].closed = IF transports[i].close = "none" THEN 0 ELSE 1

(***************************************************************************)
(* Claims about the size trigger and the backoff of HTTPTransport.         *)
(***************************************************************************)
\* The accepted write() of the step starts one request that carries the
\* whole queue, the new entry included, and returns with it outstanding.
WriteStartsRequest ==
    /\ Len(sends') = Len(sends) + 1
    /\ Messages(sends'[Len(sends')].batch) = Messages(queue) \cup {httpAccepted'}
    /\ sends'[Len(sends')].phase = "request"
    /\ queue' = <<>>

\* The accepted write() of the step only enqueues.
WriteOnlyEnqueues ==
    /\ sends' = sends
    /\ Len(queue') = Len(queue) + 1

\* C26: an accepted write() that brings the queue to batchSize or more
\* while no send is outstanding starts one request carrying the whole queue
\* and returns without waiting for it; while a send is outstanding, write()
\* only enqueues and starts no request.
C26_SizeTrigger ==
    [][httpAccepted' > httpAccepted =>
          /\ (Len(queue) + 1 >= BatchSize /\ Outstanding = {}) => WriteStartsRequest
          /\ Outstanding # {} => WriteOnlyEnqueues]_vars

\* C27: the waits of a batch are retryDelay, 2 * retryDelay,
\* 4 * retryDelay, ...: the first is retryDelay and each next one is twice
\* the one before; a batch never waits more than maxRetries times and a
\* batch that failed for good has waited exactly maxRetries times.
C27_BackoffSchedule ==
    \A b \in 1..Len(sends) :
        LET waits == sends[b].waits
        IN  /\ Len(waits) <= maxRetries
            /\ Len(waits) >= 1 => waits[1] = retryDelay
            /\ \A k \in 1..(Len(waits) - 1) : waits[k + 1] = 2 * waits[k]
            /\ sends[b].phase = "failed" => Len(waits) = maxRetries
            /\ sends[b].phase = "backoff" => Len(waits) = sends[b].retryCount + 1

C27_Witness ==
    /\ maxRetries = MaxRetriesCfg
    /\ \E b \in 1..Len(sends) :
          /\ sends[b].phase = "failed"
          /\ Len(sends[b].waits) = MaxRetriesCfg
          /\ sends[b].waits[MaxRetriesCfg] = retryDelay * (2 ^ (MaxRetriesCfg - 1))

(***************************************************************************)
(* Claims about a destroyed stream and about FileTransport.                *)
(***************************************************************************)
\* C28: a BufferedFileTransport whose stream is destroyed never calls
\* write on that stream, whatever write() and flush() calls it gets.
C28_NoWriteToDestroyedStream ==
    bfWriteStream.destroyed => bfWriteStream.writes = <<>>

\* C29: the stream of a FileTransport gets the formatted lines one at a
\* time in write-call order: the k-th stream write is the k-th accepted
\* line, the lines not yet written wait in call order, and at most one
\* stream write is without its callback; a write error is logged and the
\* callback that reports it still starts the next queued write.
C29_WritesSerialised ==
    /\ [](/\ Len(ftWriteStream.writes) - ftWriteStream.completed \in {0, 1}
          /\ Len(ftWriteStream.writes) + Len(writeQueue) = ftAccepted
          /\ \A k \in 1..Len(ftWriteStream.writes) :
                /\ Len(ftWriteStream.writes[k]) = 2
                /\ ftWriteStream.writes[k][1].message = k
                /\ ftWriteStream.writes[k][2] = Newline
          /\ \A i \in 1..Len(writeQueue) :
                writeQueue[i].message = Len(ftWriteStream.writes) + i
          /\ ftWriteStream.errorsLogged = Cardinality(ftWriteStream.failed)
          /\ ftQueueErrors = Cardinality(ftWriteStream.failed))
    /\ [][(ftWriteStream'.completed > ftWriteStream.completed /\ writeQueue # <<>>) =>
             /\ Len(ftWriteStream'.writes) = Len(ftWriteStream.writes) + 1
             /\ writeQueue' = Tail(writeQueue)]_vars

C29_Witness ==
    /\ program.sink = "file"
    /\ ftWriteStream.failed = {1}
    /\ Len(ftWriteStream.writes) = 3
    /\ ftWriteStream.completed = 2
    /\ writeQueue = <<>>

(***************************************************************************)
(* Claims about the progress of HTTPTransport.                             *)
(***************************************************************************)
\* Record number m is in a batch, for which a request was issued when the
\* batch was taken.
HandedOff(m) ==
    \E b \in 1..Len(sends) : m \in Messages(sends[b].batch) /\ sends[b].requests >= 1

\* C30: with the timer firing and every request and backoff wait settling,
\* every record that is in the queue before close() is called is eventually
\* in a batch for which a request was issued, also when it arrived while a
\* flush was in flight and so started no request itself.
C30_EventualHandOff ==
    \A m \in 1..FairWrites :
        (m \in Messages(queue) /\ closeCalls = 0) ~> HandedOff(m)

C30_Witness ==
    /\ Len(sends) = 2
    /\ closeCalls = 0
    /\ Messages(sends[1].batch) = {1}
    /\ Messages(sends[2].batch) = {2}
    /\ sends[1].phase = "delivered"
    /\ sends[2].requests >= 1

(***************************************************************************)
(* Claims about conservation, the restart counter and the interval.        *)
(***************************************************************************)
\* The formatted records of the stream writes `writes`, in the order the
\* stream got them.
RECURSIVE WrittenLines(_)
WrittenLines(writes) ==
    IF writes = <<>> THEN <<>>
    ELSE Lines(Head(writes)) \o WrittenLines(Tail(writes))

\* The records of all stream writes followed by the buffer are the first
\* `accepted` records in write order, and every stream write is a non-empty
\* run of records joined by newlines.
Conserved(buf, stream, accepted) ==
    LET all == WrittenLines(stream.writes) \o buf
    IN  /\ Len(all) = accepted
        /\ \A i \in 1..Len(all) : all[i].message = i
        /\ \A k \in 1..Len(stream.writes) :
              /\ Lines(stream.writes[k]) # <<>>
              /\ stream.writes[k] = Joined(Lines(stream.writes[k]))

\* C31: for both local sinks, in every reachable state the data of all
\* stream writes issued so far followed by the buffer is the sequence of
\* accepted records in write order (none skipped, reordered or written
\* twice), and every step that writes the stream leaves the buffer empty.
C31_BufferConservation ==
    /\ [](/\ Conserved(buffer, writeStream, sAccepted)
          /\ Conserved(bfBuffer, bfWriteStream, bfAccepted))
    /\ [][/\ Len(writeStream'.writes) > Len(writeStream.writes) => buffer' = <<>>
          /\ Len(bfWriteStream'.writes) > Len(bfWriteStream.writes) => bfBuffer' = <<>>]_vars

C31_Witness ==
    /\ program.sink = "smart"
    /\ sAccepted = 2
    /\ Len(writeStream.writes) = 1
    /\ Len(buffer) = 1
    /\ buffer[1].message = 2

\* The step posts the record accepted in it to the worker held, as the
\* last envelope of its mailbox, and queues nothing.
PostsToHeldWorker ==
    /\ messageQueue' = messageQueue
    /\ Len(workers'[worker].posted) = Len(workers[worker].posted) + 1
    /\ workers'[worker].posted[Len(workers'[worker].posted)].type = "log"
    /\ workers'[worker].posted[Len(workers'[worker].posted)].data.message = wAccepted'

\* C32: the step that spawns a worker leaves the new worker as the handle,
\* the backlog replayed and restartCount 0; so whenever a worker handle is
\* held restartCount is 0 and the handle is the worker spawned last, and a
\* write accepted then is posted directly to that worker.
C32_SpawnResetsCount ==
    /\ [](worker # 0 => (restartCount = 0 /\ worker = Len(workers)))
    /\ [][/\ Len(workers') > Len(workers) =>
                /\ restartCount' = 0
                /\ worker' = Len(workers')
                /\ messageQueue' = <<>>
                /\ workers'[worker'].replayed = Len(messageQueue)
          /\ (wAccepted' > wAccepted /\ worker # 0) => PostsToHeldWorker]_vars

C32_Witness ==
    /\ program.sink = "worker"
    /\ Len(workers) = 2
    /\ workers[1].failures = 1
    /\ worker = 2
    /\ restartCount = 0
    /\ workers[2].replayed = 0
    /\ Len(workers[2].posted) = 1
    /\ workers[2].posted[1].type = "log"

\* C33: after every flush of a SmartFileTransport with an interval, by
\* whatever trigger, a whole interval lies before the next firing of the
\* interval timer: the step that writes the stream leaves the timer with
\* its full period.
C33_IntervalRearmedOnFlush ==
    [][(/\ Len(writeStream'.writes) > Len(writeStream.writes)
        /\ autoFlush.enabled /\ Truthy(autoFlush.interval)
        /\ ~isClosing') =>
          flushTimer' = autoFlush.interval]_vars

(***************************************************************************)
(* Claims about the retry budget, the flag and the shutdown of             *)
(* HTTPTransport.                                                          *)
(***************************************************************************)
\* C34: with maxRetries configured as 0 no batch is retried: a batch gets
\* one request and no backoff wait, and a batch whose request failed is
\* failed for good and reported once.
C34_ZeroRetryBudget ==
    maxRetries = 0 =>
        \A b \in 1..Len(sends) :
            /\ sends[b].requests = 1
            /\ sends[b].waits = <<>>
            /\ sends[b].phase \in {"request", "delivered", "failed"}
            /\ sends[b].phase = "failed" => sends[b].reported = 1

\* C35: the step in which a send settles (delivered, or failed for good)
\* leaves isFlushInProgress false; the flag is false whenever no send is
\* outstanding, and it is never false while a send, whose flush set it, is
\* still outstanding.
C35_FlagTracksFlush ==
    /\ [](isFlushInProgress <=> Outstanding # {})
    /\ [][(\E b \in 1..Len(sends) : InFlight(sends[b]) /\ ~InFlight(sends'[b])) =>
             ~isFlushInProgress']_vars

\* The number of requests issued so far, over all batches.
RECURSIVE RequestsOf(_)
RequestsOf(ss) == IF ss = <<>> THEN 0 ELSE Head(ss).requests + RequestsOf(Tail(ss))

\* C36: once a close() has resolved no step starts a request, neither for
\* a new batch nor as a retry, whatever write() calls follow.
C36_NoRequestAfterClose ==
    [][closesResolved > 0 => RequestsOf(sends') = RequestsOf(sends)]_vars

LiveWorkers ==
    {w \in 1..Len(workers) :
        /\ workers[w].status = "running"
        /\ workers[w].failures = 0
        /\ workers[w].terminateCalls = 0}

\* C38: every spawn happens in a state where the worker handle is empty,
\* and at most one spawned worker that has neither failed nor been
\* terminated exists in every reachable state.
C38_SpawnOnlyWhenEmpty ==
    /\ [](Cardinality(LiveWorkers) <= 1)
    /\ [][Len(workers') > Len(workers) => worker = 0]_vars

\* Worker w is no longer the current one: a later worker has been spawned
\* or close() has called terminate() on it.
Stale(w) == w < Len(workers) \/ workers[w].terminateCalls > 0

\* C39: a step in which a stale worker emits 'error' or a non-zero 'exit'
\* leaves the worker handle, the restart counter and the pending restart
\* timers as they were.
C39_StaleEventsIsolated ==
    [][\A w \in 1..Len(workers) :
          (Stale(w) /\ workers'[w].failures > workers[w].failures) =>
              UNCHANGED <<worker, restartCount, restartTimers>>]_vars

\* The step handles a failure event of some worker.
FailureHandled ==
    \E w \in 1..Len(workers) : workers'[w].failures > workers[w].failures

====
